---- MODULE Spec2Model ----
(***************************************************************************)
(* Model of plaso/parsers/winreg_plugins/amcache.py: the two Amcache       *)
(* Registry plugins (Amcache8Parser, Amcache10Parser), their four record   *)
(* decoders and the events they hand to the parser mediator.               *)
(*                                                                         *)
(* Python values are tagged records (PyNone, PyInt, PyStr, PyList); text   *)
(* is a sequence of one-character strings so that slicing, prefix tests,   *)
(* numeral parsing and date parsing are computed character by character.   *)
(* Built-in behaviour (str.format, int, str.join, strptime, strftime) is   *)
(* that of CPython 3 on a host whose local time zone is UTC.               *)
(* An exception that no handler in amcache.py catches leaves ExtractEvents *)
(* before any event is produced; it is recorded in `errors`.               *)
(***************************************************************************)
EXTENDS Integers, Sequences, FiniteSets, TLC

VARIABLES registry_key, events, errors, next_object

vars == <<registry_key, events, errors, next_object>>

(* ------------------------------ bounds -------------------------------- *)

\* Largest number of values a generated key holds.
MaxValues == 5

(* --------------------------- Python values ---------------------------- *)

PyNone == [t |-> "none", i |-> 0, s |-> <<>>, l |-> <<>>]
PyInt(n) == [t |-> "int", i |-> n, s |-> <<>>, l |-> <<>>]
PyStr(text) == [t |-> "str", i |-> 0, s |-> text, l |-> <<>>]
PyList(elems) == [t |-> "list", i |-> 0, s |-> <<>>, l |-> elems]

\* The outcome of evaluating an expression: a value, or a raised exception.
Ok(v) == [err |-> "none", val |-> v]
Raise(e) == [err |-> e, val |-> PyNone]

DecDigits == <<"0", "1", "2", "3", "4", "5", "6", "7", "8", "9">>
HexLower == DecDigits \o <<"a", "b", "c", "d", "e", "f">>
HexUpper == DecDigits \o <<"A", "B", "C", "D", "E", "F">>

IsDigitIn(c, base) ==
  \E k \in 1..base : HexLower[k] = c \/ HexUpper[k] = c

DigitValue(c) ==
  (CHOOSE k \in 1..16 : HexLower[k] = c \/ HexUpper[k] = c) - 1

\* The decimal numeral of a non-negative integer.
RECURSIVE NatText(_)
NatText(n) ==
  IF n < 10 THEN <<DecDigits[n + 1]>>
  ELSE NatText(n \div 10) \o <<DecDigits[(n % 10) + 1]>>

\* '{:d}' applied to an int.
DecimalText(n) == IF n < 0 THEN <<"-">> \o NatText(0 - n) ELSE NatText(n)

\* The value of a non-empty run of digits of the given base.
RECURSIVE DigitsValue(_, _)
DigitsValue(digits, base) ==
  IF Len(digits) = 0 THEN 0
  ELSE DigitsValue(SubSeq(digits, 1, Len(digits) - 1), base) * base
       + DigitValue(digits[Len(digits)])

AllDigits(digits, base) ==
  /\ Len(digits) > 0
  /\ \A k \in 1..Len(digits) : IsDigitIn(digits[k], base)

Tail2(text) == SubSeq(text, 3, Len(text))

\* int(text, base) for base 10 and 16: an optional sign, for base 16 an
\* optional 0x prefix, then digits of the base; anything else is a
\* ValueError.  (Surrounding white space and digit-group underscores, which
\* int also accepts, do not occur in the payloads generated here.)
IntOfText(text, base) ==
  LET signed == Len(text) > 0 /\ text[1] \in {"-", "+"}
      body == IF signed THEN Tail(text) ELSE text
      prefixed == /\ base = 16
                  /\ Len(body) >= 2
                  /\ body[1] = "0"
                  /\ body[2] \in {"x", "X"}
      digits == IF prefixed THEN Tail2(body) ELSE body
      magnitude == DigitsValue(digits, base)
  IN IF AllDigits(digits, base)
       THEN Ok(PyInt(IF signed /\ text[1] = "-" THEN 0 - magnitude ELSE magnitude))
       ELSE Raise("ValueError")

\* '{:s}'.format(x): text passes through, an int has no 's' format
\* (ValueError), None and list reject any format string (TypeError).
FormatS(x) ==
  CASE x.t = "str" -> Ok(PyStr(x.s))
    [] x.t = "int" -> Raise("ValueError")
    [] OTHER -> Raise("TypeError")

\* '{:d}'.format(x): an int renders as its decimal numeral, text has no 'd'
\* format (ValueError), None and list reject any format string (TypeError).
FormatD(x) ==
  CASE x.t = "int" -> Ok(PyStr(DecimalText(x.i)))
    [] x.t = "str" -> Raise("ValueError")
    [] OTHER -> Raise("TypeError")

\* int('{:d}'.format(x))
IntFormatD(x) ==
  LET f == FormatD(x)
  IN IF f.err # "none" THEN f ELSE IntOfText(f.val.s, 10)

\* int('{:s}'.format(x), 16)
IntFormatS16(x) ==
  LET f == FormatS(x)
  IN IF f.err # "none" THEN f ELSE IntOfText(f.val.s, 16)

\* separator.join of a sequence of texts.
RECURSIVE JoinTexts(_)
JoinTexts(elems) ==
  IF Len(elems) = 0 THEN <<>>
  ELSE IF Len(elems) = 1 THEN elems[1]
  ELSE elems[1] \o <<"\n">> \o JoinTexts(Tail(elems))

\* '\n'.join(x): a list of texts is joined, a text is iterated character by
\* character, None and int are not iterable (TypeError).
NewlineJoin(x) ==
  CASE x.t = "list" -> Ok(PyStr(JoinTexts(x.l)))
    [] x.t = "str" -> Ok(PyStr(JoinTexts([k \in 1..Len(x.s) |-> <<x.s[k]>>])))
    [] OTHER -> Raise("TypeError")

\* A slice that starts one character early: text[3:]
SliceFrom3(text) == SubSeq(text, 4, Len(text))

\* text[4:]
SliceFrom4(text) == SubSeq(text, 5, Len(text))

\* str.startswith
StartsWith(text, prefix) ==
  /\ Len(prefix) <= Len(text)
  /\ SubSeq(text, 1, Len(prefix)) = prefix

(* ------------------- strptime / strftime('%s') ------------------------ *)

WhiteSpace == {" ", "\t"}

\* The number of decimal digits at text[i], text[i+1], ..., at most max.
RECURSIVE DigitRun(_, _, _)
DigitRun(text, i, max) ==
  IF max = 0 \/ i > Len(text) \/ ~IsDigitIn(text[i], 10) THEN 0
  ELSE 1 + DigitRun(text, i + 1, max - 1)

\* The number of white space characters at text[i], text[i+1], ...
RECURSIVE SpaceRun(_, _)
SpaceRun(text, i) ==
  IF i > Len(text) \/ text[i] \notin WhiteSpace THEN 0
  ELSE 1 + SpaceRun(text, i + 1)

\* A numeric directive at position i: n digits read (0 when none match),
\* value v, and the position after it.
NumField(text, i, max) ==
  LET n == DigitRun(text, i, max)
  IN [n |-> n, v |-> DigitsValue(SubSeq(text, i, i + n - 1), 10), next |-> i + n]

\* %d also accepts a space followed by one digit 1-9.
DayField(text, i) ==
  IF /\ i + 1 <= Len(text)
     /\ text[i] = " "
     /\ IsDigitIn(text[i + 1], 10)
     /\ text[i + 1] # "0"
    THEN [n |-> 2, v |-> DigitValue(text[i + 1]), next |-> i + 2]
    ELSE NumField(text, i, 2)

Literal(text, i, c) == i <= Len(text) /\ text[i] = c

IsLeap(y) == (y % 4 = 0 /\ y % 100 # 0) \/ y % 400 = 0

DaysInMonth(y, m) ==
  CASE m \in {4, 6, 9, 11} -> 30
    [] m = 2 -> IF IsLeap(y) THEN 29 ELSE 28
    [] OTHER -> 31

\* Days from 1970-01-01 to the civil date y-m-d (proleptic Gregorian).
DaysFromCivil(y, m, d) ==
  LET yy == IF m <= 2 THEN y - 1 ELSE y
      era == yy \div 400
      yoe == yy - era * 400
      mp == IF m > 2 THEN m - 3 ELSE m + 9
      doy == (153 * mp + 2) \div 5 + d - 1
      doe == yoe * 365 + yoe \div 4 - yoe \div 100 + doy
  IN era * 146097 + doe - 719468

\* int(datetime.datetime.strptime(text, '%m/%d/%Y %H:%M:%S').strftime('%s')):
\* the text must match the directives exactly (1 or 2 digits per field, 4 for
\* the year, white space between date and time, nothing after the seconds),
\* the fields must form a valid datetime, and the result is the Unix time of
\* that local time.  Any mismatch is a ValueError.  One operator per
\* directive, each handing what it read to the next.
StrptimeSecond(text, i, days, hour, minute) ==
  LET f == NumField(text, i, 2)
  IN IF f.n >= 1 /\ f.v \in 0..59 /\ f.next = Len(text) + 1
       THEN Ok(PyInt(days * 86400 + hour * 3600 + minute * 60 + f.v))
       ELSE Raise("ValueError")

StrptimeMinute(text, i, days, hour) ==
  LET f == NumField(text, i, 2)
  IN IF f.n >= 1 /\ f.v \in 0..59 /\ Literal(text, f.next, ":")
       THEN StrptimeSecond(text, f.next + 1, days, hour, f.v)
       ELSE Raise("ValueError")

StrptimeHour(text, i, days) ==
  LET f == NumField(text, i, 2)
  IN IF f.n >= 1 /\ f.v \in 0..23 /\ Literal(text, f.next, ":")
       THEN StrptimeMinute(text, f.next + 1, days, f.v)
       ELSE Raise("ValueError")

StrptimeYear(text, i, month, day) ==
  LET f == NumField(text, i, 4)
  IN IF /\ f.n = 4
        /\ SpaceRun(text, f.next) >= 1
        /\ f.v >= 1
        /\ day <= DaysInMonth(f.v, month)
       THEN StrptimeHour(text, f.next + SpaceRun(text, f.next),
                         DaysFromCivil(f.v, month, day))
       ELSE Raise("ValueError")

StrptimeDay(text, i, month) ==
  LET f == DayField(text, i)
  IN IF f.n >= 1 /\ f.v \in 1..31 /\ Literal(text, f.next, "/")
       THEN StrptimeYear(text, f.next + 1, month, f.v)
       ELSE Raise("ValueError")

StrptimeEpoch(text) ==
  LET f == NumField(text, 1, 2)
  IN IF f.n >= 1 /\ f.v \in 1..12 /\ Literal(text, f.next, "/")
       THEN StrptimeDay(text, f.next + 1, f.v)
       ELSE Raise("ValueError")

\* Truth value of None or an int in an `if`.
\* The test "is not None" in place of the truth test.
IsNotNone(x) == x.t = "int"

Truthy(x) == x.t = "int" /\ x.i # 0

(* ----------------------------- containers ----------------------------- *)

TIME_DESCRIPTION_CREATION == "Creation Time"
TIME_DESCRIPTION_MODIFICATION == "Content Modification Time"
TIME_DESCRIPTION_CHANGE == "Metadata Modification Time"
TIME_DESCRIPTION_INSTALLATION == "Installation Time"

\* dfdatetime objects: the encoding and the raw timestamp they wrap.
Filetime(timestamp) == [encoding |-> "Filetime", timestamp |-> timestamp]
PosixTime(timestamp) == [encoding |-> "PosixTime", timestamp |-> timestamp]

AmcacheEventData ==
  [data_type |-> "windows:registry:amcache",
   full_path |-> PyNone, sha1 |-> PyNone, productname |-> PyNone,
   companyname |-> PyNone, fileversion |-> PyNone, languagecode |-> PyNone,
   filesize |-> PyNone, filedescription |-> PyNone, linkerts |-> PyNone,
   lastmodifiedts |-> PyNone, createdts |-> PyNone, programid |-> PyNone]

AmcacheProgramEventData ==
  [data_type |-> "windows:registry:amcache:programs",
   name |-> PyNone, version |-> PyNone, publisher |-> PyNone,
   languagecode |-> PyNone, entrytype |-> PyNone, uninstallkey |-> PyNone,
   filepaths |-> PyNone, productcode |-> PyNone, packagecode |-> PyNone,
   msiproductcode |-> PyNone, msipackagecode |-> PyNone, files |-> PyNone,
   OSatinstall |-> PyNone]

\* time_events.DateTimeValuesEvent
DateTimeValuesEvent(date_time, description) ==
  [date_time |-> date_time, timestamp_desc |-> description]

\* parser_mediator.ProduceEventWithEventData, as the events it adds: the
\* event, the identity of the event data object it was produced with, and
\* that object's attributes.
ProduceEventWithEventData(event, object, event_data) ==
  << [date_time |-> event.date_time,
      timestamp_desc |-> event.timestamp_desc,
      object |-> object,
      event_data |-> event_data] >>

\* The outcome of a method: the events produced so far, and the exception
\* that ended it ("none": it returned).
Returned(produced) == [events |-> produced, err |-> "none"]
Raised(produced, e) == [events |-> produced, err |-> e]

\* The scan of a key's values: `st` holds the decoder's locals and `err` the
\* exception that ended the scan, if any.  An assignment whose right-hand
\* side raises leaves the scan with that exception.
SetAttribute(st, attribute, r) ==
  IF r.err # "none" THEN [st EXCEPT !.err = r.err]
  ELSE [st EXCEPT !.event_data[attribute] = r.val]

SetLocal(st, local, r) ==
  IF r.err # "none" THEN [st EXCEPT !.err = r.err]
  ELSE [st EXCEPT ![local] = r.val]

\* '{:s}'.format(x)[4:]
FormatSFrom4(x) ==
  LET f == FormatS(x)
  IN IF f.err # "none" THEN f ELSE Ok(PyStr(SliceFrom4(f.val.s)))

\* try: int('{:d}'.format(x))  except ValueError: int('{:s}'.format(x), 16)
IntOrHex(x) ==
  LET first == IntFormatD(x)
  IN IF first.err = "ValueError" THEN IntFormatS16(x) ELSE first

\* try: int('{:d}'.format(x))  except ValueError: '{:s}'.format(x)
IntOrText(x) ==
  LET first == IntFormatD(x)
  IN IF first.err = "ValueError" THEN FormatS(x) ELSE first

\* s = '{:s}'.format(x); if s != '': local = int(strptime(s, ...).strftime('%s'))
\* The local keeps its value when the text is empty.
DateLocal(st, local, x) ==
  LET f == FormatS(x)
  IN IF f.err # "none" THEN [st EXCEPT !.err = f.err]
     ELSE IF f.val.s = <<>> THEN st
     ELSE SetLocal(st, local, StrptimeEpoch(f.val.s))

\* x = GetDataAsObject(); if x is not None: attribute = '{:s}'.format('\n'.join(x))
JoinUnlessNone(st, attribute, x) ==
  IF x.t = "none" THEN st ELSE SetAttribute(st, attribute, NewlineJoin(x))

(* --------------------------- Amcache10Parser -------------------------- *)

Chars_Root == <<"\\", "R", "o", "o", "t", "\\">>

AMCACHE_ROOT_WIN10_FILE_KEY ==
  Chars_Root \o <<"I", "n", "v", "e", "n", "t", "o", "r", "y">>
             \o <<"A", "p", "p", "l", "i", "c", "a", "t", "i", "o", "n">>
             \o <<"F", "i", "l", "e">>

AMCACHE_ROOT_WIN10_PROGRAM_KEY ==
  Chars_Root \o <<"I", "n", "v", "e", "n", "t", "o", "r", "y">>
             \o <<"A", "p", "p", "l", "i", "c", "a", "t", "i", "o", "n">>

\* One iteration of the loop over registry_key.GetValues().
Win10FileValue(st, registry_value) ==
  LET name == registry_value.name
      data == registry_value.data
  IN CASE name = "LinkDate" -> DateLocal(st, "linkdateint", data)
       [] name = "LowerCaseLongPath" -> SetAttribute(st, "full_path", FormatS(data))
       [] name = "FileId" -> SetAttribute(st, "sha1", FormatSFrom4(data))
       [] name = "ProductName" -> SetAttribute(st, "productname", FormatS(data))
       [] name = "Publisher" -> SetAttribute(st, "companyname", FormatS(data))
       [] name = "Version" -> SetAttribute(st, "fileversion", FormatS(data))
       [] name = "Language" -> SetAttribute(st, "languagecode", IntOrHex(data))
       [] name = "Size" -> SetAttribute(st, "filesize", IntOrHex(data))
       [] name = "ProgramId" -> SetAttribute(st, "programid", FormatS(data))
       [] OTHER -> st

RECURSIVE Win10FileScan(_, _)
Win10FileScan(st, values) ==
  IF st.err # "none" \/ Len(values) = 0 THEN st
  ELSE Win10FileScan(Win10FileValue(st, Head(values)), Tail(values))

\* Lines 180-191: the events produced after the scan `st` of the values.
Win10FileKeyEvents(produced, amcache_datetime, st, object) ==
  IF st.err # "none" THEN Raised(produced, st.err)
  ELSE Returned(
    produced
    \o ProduceEventWithEventData(
         DateTimeValuesEvent(amcache_datetime, TIME_DESCRIPTION_MODIFICATION),
         object, st.event_data)
    \o (IF Truthy(st.linkdateint)
          THEN ProduceEventWithEventData(
                 DateTimeValuesEvent(PosixTime(st.linkdateint.i),
                                     TIME_DESCRIPTION_CREATION),
                 object, st.event_data)
          ELSE <<>>))

ProcessAMCacheWin10FileKey(produced, key, object) ==
  Win10FileKeyEvents(produced, key.last_written_time,
                     Win10FileScan([event_data |-> AmcacheEventData,
                                    linkdateint |-> PyNone,
                                    err |-> "none"], key.values),
                     object)

Win10ProgramValue(st, registry_value) ==
  LET name == registry_value.name
      data == registry_value.data
  IN CASE name = "InstallDate" -> DateLocal(st, "installdateint", data)
       [] name = "Name" -> SetAttribute(st, "name", FormatS(data))
       [] name = "Version" -> SetAttribute(st, "version", FormatS(data))
       [] name = "Publisher" -> SetAttribute(st, "publisher", FormatS(data))
       [] name = "Language" -> SetAttribute(st, "languagecode", IntOrText(data))
       [] name = "Type" -> SetAttribute(st, "entrytype", FormatS(data))
       [] name = "RegistryKeyPath" -> SetAttribute(st, "uninstallkey", FormatS(data))
       [] name = "ManifestPath" -> SetAttribute(st, "filepaths", FormatS(data))
       [] name = "OSVersionAtInstallTime" -> SetAttribute(st, "OSatinstall", FormatS(data))
       [] name = "MsiProductCode" -> SetAttribute(st, "msiproductcode", FormatS(data))
       [] name = "MsiPackageCode" -> SetAttribute(st, "msipackagecode", FormatS(data))
       [] name = "RootDirPath" -> SetAttribute(st, "files", FormatS(data))
       [] OTHER -> st

RECURSIVE Win10ProgramScan(_, _)
Win10ProgramScan(st, values) ==
  IF st.err # "none" \/ Len(values) = 0 THEN st
  ELSE Win10ProgramScan(Win10ProgramValue(st, Head(values)), Tail(values))

\* Lines 250-260: the events produced after the scan `st` of the values.
Win10ProgramKeyEvents(produced, amcache_datetime, st, object) ==
  IF st.err # "none" THEN Raised(produced, st.err)
  ELSE Returned(
    produced
    \o ProduceEventWithEventData(
         DateTimeValuesEvent(amcache_datetime, TIME_DESCRIPTION_INSTALLATION),
         object, st.event_data)
    \o (IF st.installdateint.t # "none"
          THEN ProduceEventWithEventData(
                 DateTimeValuesEvent(PosixTime(st.installdateint.i),
                                     TIME_DESCRIPTION_INSTALLATION),
                 object, st.event_data)
          ELSE <<>>))

ProcessAMCacheWin10ProgramKey(produced, key, object) ==
  Win10ProgramKeyEvents(produced, key.last_written_time,
                        Win10ProgramScan([event_data |-> AmcacheProgramEventData,
                                          installdateint |-> PyNone,
                                          err |-> "none"], key.values),
                        object)

\* Amcache10Parser.ExtractEvents
\* The router without its final prefix test: whatever is not a file key is
\* decoded as a program key.
Amcache10RouteUnfiltered(produced, key, object) ==
  IF Len(key.values) = 0 THEN Returned(produced)
  ELSE IF StartsWith(key.path, AMCACHE_ROOT_WIN10_FILE_KEY)
    THEN ProcessAMCacheWin10FileKey(produced, key, object)
  ELSE ProcessAMCacheWin10ProgramKey(produced, key, object)

\* The router with its two prefix tests in the other order.
Amcache10RouteProgramFirst(produced, key, object) ==
  IF Len(key.values) = 0 THEN Returned(produced)
  ELSE IF StartsWith(key.path, AMCACHE_ROOT_WIN10_PROGRAM_KEY)
    THEN ProcessAMCacheWin10ProgramKey(produced, key, object)
  ELSE IF StartsWith(key.path, AMCACHE_ROOT_WIN10_FILE_KEY)
    THEN ProcessAMCacheWin10FileKey(produced, key, object)
  ELSE Returned(produced)

Amcache10Route(produced, key, object) ==
  IF Len(key.values) = 0 THEN Returned(produced)
  ELSE IF StartsWith(key.path, AMCACHE_ROOT_WIN10_FILE_KEY)
    THEN ProcessAMCacheWin10FileKey(produced, key, object)
  ELSE IF StartsWith(key.path, AMCACHE_ROOT_WIN10_PROGRAM_KEY)
    THEN ProcessAMCacheWin10ProgramKey(produced, key, object)
  ELSE Returned(produced)

(* --------------------------- Amcache8Parser --------------------------- *)

AMCACHE_ROOT_FILE_KEY == Chars_Root \o <<"F", "i", "l", "e">>
AMCACHE_SHA1 == "101"
\* The value name with its second digit dropped.
AMCACHE_DATETIME_Truncated == "1"
AMCACHE_DATETIME == "17"
AMCACHE_FULL_PATH == "15"
AMCACHE_PRODUCTNAME == "0"
AMCACHE_COMPANYNAME == "1"
AMCACHE_FILEVERSION == "5"
AMCACHE_LANGUAGECODE == "3"
AMCACHE_FILESIZE == "6"
AMCACHE_FILEDESCRIPTION == "c"
AMCACHE_LINKERTS == "f"
AMCACHE_LASTMODIFIEDTS == "11"
AMCACHE_CREATEDTS == "12"
AMCACHE_PROGRAMID == "100"

AMCACHE_ROOT_PROGRAM_KEY == Chars_Root \o <<"P", "r", "o", "g", "r", "a", "m", "s">>
AMCACHE_P_INSTALLDATE == "a"
AMCACHE_P_NAME == "0"
AMCACHE_P_VERSION == "1"
AMCACHE_P_PUBLISHER == "2"
AMCACHE_P_LANGUAGECODE == "3"
AMCACHE_P_ENTRYTYPE == "6"
AMCACHE_P_UNINSTALLKEY == "7"
AMCACHE_P_FILEPATHS == "d"
AMCACHE_P_PRODUCTCODE == "f"
AMCACHE_P_PACKAGECODE == "10"
AMCACHE_P_MSIPRODUCTCODE == "11"
AMCACHE_P_MSIPACKAGECODE == "12"
AMCACHE_P_FILES == "Files"

ProgramValue(st, registry_value) ==
  LET name == registry_value.name
      data == registry_value.data
  IN CASE name = AMCACHE_P_INSTALLDATE -> SetLocal(st, "amcache_datetime", IntFormatD(data))
       [] name = AMCACHE_P_NAME -> SetAttribute(st, "name", FormatS(data))
       [] name = AMCACHE_P_VERSION -> SetAttribute(st, "version", FormatS(data))
       [] name = AMCACHE_P_PUBLISHER -> SetAttribute(st, "publisher", FormatS(data))
       [] name = AMCACHE_P_LANGUAGECODE -> SetAttribute(st, "languagecode", FormatS(data))
       [] name = AMCACHE_P_ENTRYTYPE -> SetAttribute(st, "entrytype", FormatS(data))
       [] name = AMCACHE_P_UNINSTALLKEY -> JoinUnlessNone(st, "uninstallkey", data)
       [] name = AMCACHE_P_FILEPATHS -> SetAttribute(st, "filepaths", NewlineJoin(data))
       [] name = AMCACHE_P_PRODUCTCODE -> SetAttribute(st, "productcode", FormatS(data))
       [] name = AMCACHE_P_PACKAGECODE -> SetAttribute(st, "packagecode", FormatS(data))
       [] name = AMCACHE_P_MSIPRODUCTCODE -> SetAttribute(st, "msiproductcode", NewlineJoin(data))
       [] name = AMCACHE_P_MSIPACKAGECODE -> SetAttribute(st, "msipackagecode", NewlineJoin(data))
       [] name = AMCACHE_P_FILES -> JoinUnlessNone(st, "files", data)
       [] OTHER -> st

RECURSIVE ProgramScan(_, _)
ProgramScan(st, values) ==
  IF st.err # "none" \/ Len(values) = 0 THEN st
  ELSE ProgramScan(ProgramValue(st, Head(values)), Tail(values))

\* Lines 384-387: the event produced after the scan `st` of the values.
ProgramKeyEvents(produced, st, object) ==
  IF st.err # "none" THEN Raised(produced, st.err)
  ELSE Returned(
    produced
    \o ProduceEventWithEventData(
         DateTimeValuesEvent(PosixTime(st.amcache_datetime.i),
                             TIME_DESCRIPTION_INSTALLATION),
         object, st.event_data))

ProcessAMCacheProgramKey(produced, key, object) ==
  ProgramKeyEvents(produced,
                   ProgramScan([event_data |-> AmcacheProgramEventData,
                                amcache_datetime |-> PyInt(0),
                                err |-> "none"], key.values),
                   object)

FileValue(st, registry_value) ==
  LET name == registry_value.name
      data == registry_value.data
  IN CASE name = AMCACHE_DATETIME -> SetLocal(st, "amcache_datetime", IntFormatD(data))
       [] name = AMCACHE_FULL_PATH -> SetAttribute(st, "full_path", FormatS(data))
       [] name = AMCACHE_SHA1 -> SetAttribute(st, "sha1", FormatSFrom4(data))
       [] name = AMCACHE_PRODUCTNAME -> SetAttribute(st, "productname", FormatS(data))
       [] name = AMCACHE_COMPANYNAME -> SetAttribute(st, "companyname", FormatS(data))
       [] name = AMCACHE_FILEVERSION -> SetAttribute(st, "fileversion", FormatS(data))
       [] name = AMCACHE_LANGUAGECODE -> SetAttribute(st, "languagecode", IntFormatD(data))
       [] name = AMCACHE_FILESIZE -> SetAttribute(st, "filesize", IntFormatD(data))
       [] name = AMCACHE_FILEDESCRIPTION -> SetAttribute(st, "filedescription", FormatS(data))
       [] name = AMCACHE_LINKERTS -> SetAttribute(st, "linkerts", IntFormatD(data))
       [] name = AMCACHE_LASTMODIFIEDTS -> SetAttribute(st, "lastmodifiedts", IntFormatD(data))
       [] name = AMCACHE_CREATEDTS -> SetAttribute(st, "createdts", IntFormatD(data))
       [] name = AMCACHE_PROGRAMID -> SetAttribute(st, "programid", FormatS(data))
       [] OTHER -> st

RECURSIVE FileScan(_, _)
FileScan(st, values) ==
  IF st.err # "none" \/ Len(values) = 0 THEN st
  ELSE FileScan(FileValue(st, Head(values)), Tail(values))

\* Lines 440-461: the events produced after the scan `st` of the values.
FileKeyEvents(produced, st, object) ==
  IF st.err # "none" THEN Raised(produced, st.err)
  ELSE Returned(
    produced
    \o ProduceEventWithEventData(
         DateTimeValuesEvent(Filetime(st.amcache_datetime.i),
                             TIME_DESCRIPTION_MODIFICATION),
         object, st.event_data)
    \o (IF Truthy(st.event_data.createdts)
          THEN ProduceEventWithEventData(
                 DateTimeValuesEvent(Filetime(st.event_data.createdts.i),
                                     TIME_DESCRIPTION_CREATION),
                 object, st.event_data)
          ELSE <<>>)
    \o (IF Truthy(st.event_data.lastmodifiedts)
          THEN ProduceEventWithEventData(
                 DateTimeValuesEvent(Filetime(st.event_data.lastmodifiedts.i),
                                     TIME_DESCRIPTION_MODIFICATION),
                 object, st.event_data)
          ELSE <<>>)
    \o (IF Truthy(st.event_data.linkerts)
          THEN ProduceEventWithEventData(
                 DateTimeValuesEvent(PosixTime(st.event_data.linkerts.i),
                                     TIME_DESCRIPTION_CHANGE),
                 object, st.event_data)
          ELSE <<>>))

ProcessAMCacheFileKey(produced, key, object) ==
  FileKeyEvents(produced,
                FileScan([event_data |-> AmcacheEventData,
                          amcache_datetime |-> PyInt(0),
                          err |-> "none"], key.values),
                object)

\* The routing without the number_of_values test of lines 319-320.
Amcache8RouteUnguarded(produced, key, object) ==
  IF StartsWith(key.path, AMCACHE_ROOT_FILE_KEY)
    THEN ProcessAMCacheFileKey(produced, key, object)
  ELSE IF StartsWith(key.path, AMCACHE_ROOT_PROGRAM_KEY)
    THEN ProcessAMCacheProgramKey(produced, key, object)
  ELSE Returned(produced)

\* Amcache8Parser.ExtractEvents
Amcache8Route(produced, key, object) ==
  IF Len(key.values) = 0 THEN Returned(produced)
  ELSE IF StartsWith(key.path, AMCACHE_ROOT_FILE_KEY)
    THEN ProcessAMCacheFileKey(produced, key, object)
  ELSE IF StartsWith(key.path, AMCACHE_ROOT_PROGRAM_KEY)
    THEN ProcessAMCacheProgramKey(produced, key, object)
  ELSE Returned(produced)

(* ------------------------- generated registry keys -------------------- *)

Text_16 == <<"1", "6">>
Text_1a == <<"1", "a">>
Text_zz == <<"z", "z">>
Text_abc == <<"a", "b", "c">>
Text_hash == <<"0", "0", "0", "0", "8", "2", "e">>
Text_path == <<"c", ":", "\\", "x">>
Date_epoch == <<"0", "1", "/", "0", "1", "/", "1", "9", "7", "0", " ", "0", "0", ":", "0", "0", ":", "0", "0">>
Date_later == <<"0", "1", "/", "0", "2", "/", "1", "9", "7", "0", " ", "0", "0", ":", "0", "0", ":", "0", "1">>
Date_malformed == <<"1", "5", "/", "4", "5", "/", "2", "0", "1", "8">>
List_ab_c == <<Text_abc, Text_16>>
List_zz == <<Text_zz>>

Value(name, data) == [name |-> name, data |-> data]

\* Payloads a key under \Root\File is generated from, in hive order.
FileSamples ==
  << Value("17", PyInt(0)), Value("17", PyInt(26)),
     Value("12", PyInt(0)), Value("12", PyInt(16)),
     Value("11", PyInt(0)), Value("11", PyInt(17)),
     Value("f", PyInt(0)), Value("f", PyInt(18)),
     Value("3", PyInt(16)), Value("3", PyStr(Text_16)),
     Value("3", PyStr(Text_1a)), Value("3", PyStr(Text_zz)),
     Value("6", PyInt(16)), Value("6", PyStr(Text_1a)),
     Value("101", PyStr(Text_hash)), Value("101", PyStr(Text_abc)),
     Value("15", PyStr(Text_path)),
     Value("Unknown", PyStr(Text_zz)) >>

\* Payloads a key under \Root\Programs is generated from.
ProgramSamples ==
  << Value("a", PyInt(0)), Value("a", PyInt(16)), Value("a", PyStr(Text_zz)),
     Value("0", PyStr(Text_abc)), Value("0", PyInt(16)),
     Value("7", PyList(List_ab_c)), Value("7", PyNone),
     Value("d", PyList(List_ab_c)), Value("d", PyNone),
     Value("11", PyList(List_zz)), Value("11", PyNone),
     Value("12", PyList(List_ab_c)), Value("12", PyNone),
     Value("Files", PyList(List_ab_c)), Value("Files", PyNone),
     Value("Files", PyInt(16)),
     Value("Unknown", PyStr(Text_zz)) >>

\* Payloads a key under \Root\InventoryApplicationFile is generated from.
Win10FileSamples ==
  << Value("LinkDate", PyStr(<<>>)), Value("LinkDate", PyStr(Date_epoch)),
     Value("LinkDate", PyStr(Date_later)), Value("LinkDate", PyStr(Date_malformed)),
     Value("LowerCaseLongPath", PyStr(Text_path)),
     Value("FileId", PyStr(Text_hash)), Value("FileId", PyStr(Text_abc)),
     Value("Language", PyInt(16)), Value("Language", PyStr(Text_16)),
     Value("Language", PyStr(Text_1a)), Value("Language", PyStr(Text_zz)),
     Value("Size", PyInt(16)), Value("Size", PyStr(Text_16)),
     Value("Size", PyStr(Text_zz)),
     Value("Unknown", PyStr(Text_zz)) >>

\* Payloads a key under \Root\InventoryApplication is generated from.
Win10ProgramSamples ==
  << Value("InstallDate", PyStr(<<>>)), Value("InstallDate", PyStr(Date_epoch)),
     Value("InstallDate", PyStr(Date_later)),
     Value("InstallDate", PyStr(Date_malformed)),
     Value("Name", PyStr(Text_abc)), Value("Name", PyInt(16)),
     Value("Language", PyInt(16)), Value("Language", PyStr(Text_zz)),
     Value("Language", PyNone),
     Value("Unknown", PyStr(Text_zz)) >>

\* Payloads the keys at the remaining paths are generated from.
OtherSamples ==
  << Value("17", PyInt(26)), Value("a", PyInt(16)),
     Value("LinkDate", PyStr(Date_later)),
     Value("InstallDate", PyStr(Date_later)) >>

\* The generated key paths, each with the payloads its values are drawn from.
KeySamples ==
  << [path |-> AMCACHE_ROOT_FILE_KEY \o <<"\\", "a">>, samples |-> FileSamples],
     [path |-> AMCACHE_ROOT_PROGRAM_KEY \o <<"\\", "a">>, samples |-> ProgramSamples],
     [path |-> AMCACHE_ROOT_WIN10_FILE_KEY \o <<"\\", "a">>,
      samples |-> Win10FileSamples],
     [path |-> AMCACHE_ROOT_WIN10_PROGRAM_KEY \o <<"\\", "a">>,
      samples |-> Win10ProgramSamples],
     [path |-> AMCACHE_ROOT_WIN10_PROGRAM_KEY \o <<"s">>, samples |-> OtherSamples],
     [path |-> AMCACHE_ROOT_FILE_KEY \o <<"s">>, samples |-> OtherSamples],
     [path |-> Chars_Root \o <<"F", "i", "l">>, samples |-> OtherSamples],
     [path |-> <<"\\">> \o AMCACHE_ROOT_FILE_KEY, samples |-> OtherSamples] >>

SamplesFor(path) ==
  KeySamples[CHOOSE k \in 1..Len(KeySamples) : KeySamples[k].path = path].samples

\* key.last_written_time of the generated keys (a dfdatetime object).
LastWrittenTimes == {Filetime(7), Filetime(26)}

\* The position of the key's last value among its samples (0: no value yet).
LastSample(key) ==
  IF Len(key.values) = 0 THEN 0
  ELSE CHOOSE k \in 1..Len(SamplesFor(key.path)) :
         SamplesFor(key.path)[k] = key.values[Len(key.values)]

Parsers == {"amcache", "amcache10"}

Init ==
  /\ \E k \in 1..Len(KeySamples), time \in LastWrittenTimes :
       registry_key = [path |-> KeySamples[k].path,
                       last_written_time |-> time,
                       values |-> <<>>]
  /\ events = [p \in Parsers |-> <<>>]
  /\ errors = [p \in Parsers |-> "pending"]
  /\ next_object = 1

\* The hive holds one more value under the key: value names are unique
\* within a key and the values are enumerated in the order of the samples.
AddValue ==
  /\ \A p \in Parsers : errors[p] = "pending"
  /\ Len(registry_key.values) < MaxValues
  /\ \E k \in 1..Len(SamplesFor(registry_key.path)) :
       LET v == SamplesFor(registry_key.path)[k]
       IN /\ k > LastSample(registry_key)
          /\ \A j \in 1..Len(registry_key.values) :
               registry_key.values[j].name # v.name
          /\ registry_key' = [registry_key EXCEPT !.values = Append(@, v)]
  /\ UNCHANGED <<events, errors, next_object>>

\* The Windows Registry parser calls the amcache plugin on the key.
Amcache8ExtractEvents ==
  /\ errors["amcache"] = "pending"
  /\ LET r == Amcache8Route(events["amcache"], registry_key, next_object)
     IN /\ events' = [events EXCEPT !["amcache"] = r.events]
        /\ errors' = [errors EXCEPT !["amcache"] = r.err]
  /\ next_object' = next_object + 1
  /\ UNCHANGED registry_key

\* The Windows Registry parser calls the amcache10 plugin on the key.
Amcache10ExtractEvents ==
  /\ errors["amcache10"] = "pending"
  /\ LET r == Amcache10Route(events["amcache10"], registry_key, next_object)
     IN /\ events' = [events EXCEPT !["amcache10"] = r.events]
        /\ errors' = [errors EXCEPT !["amcache10"] = r.err]
  /\ next_object' = next_object + 1
  /\ UNCHANGED registry_key

Next == AddValue \/ Amcache8ExtractEvents \/ Amcache10ExtractEvents

Spec == Init /\ [][Next]_vars

(* ------------------------------ claims -------------------------------- *)

Ran(p) == errors[p] # "pending"

HasName(name) ==
  \E j \in 1..Len(registry_key.values) : registry_key.values[j].name = name

DataOf(name) ==
  registry_key.values[CHOOSE j \in 1..Len(registry_key.values) :
                        registry_key.values[j].name = name].data

HasInt(name) == HasName(name) /\ DataOf(name).t = "int"
HasText(name) == HasName(name) /\ DataOf(name).t = "str"

HasValues == Len(registry_key.values) > 0

UnderFile == StartsWith(registry_key.path, AMCACHE_ROOT_FILE_KEY)
UnderPrograms == StartsWith(registry_key.path, AMCACHE_ROOT_PROGRAM_KEY)
UnderInventoryApplicationFile ==
  StartsWith(registry_key.path, AMCACHE_ROOT_WIN10_FILE_KEY)
UnderInventoryApplication ==
  /\ StartsWith(registry_key.path, AMCACHE_ROOT_WIN10_PROGRAM_KEY)
  /\ ~UnderInventoryApplicationFile

\* All events of a sequence were produced with one event data object.
SameRecord(evs) ==
  \A j, k \in 1..Len(evs) :
    evs[j].object = evs[k].object /\ evs[j].event_data = evs[k].event_data

\* C1: a key with zero values makes neither plugin produce an event or
\* raise, whatever its path.
C1_NoValuesNoEvents ==
  \A p \in Parsers :
    (Ran(p) /\ ~HasValues) => (events[p] = <<>> /\ errors[p] = "none")

C1_Witness ==
  /\ ~HasValues
  /\ UnderFile
  /\ Ran("amcache")
  /\ Ran("amcache10")

\* C2: a key under \Root\File whose values 17, 12, 11 and f are all non-zero
\* integers yields exactly four events, Modification (17 as FILETIME),
\* Creation (12 as FILETIME), Modification (11 as FILETIME), Change (f as
\* Unix time), all with the same event data, which carries the decoded
\* fields.
C2_FourEvents ==
  ( /\ Ran("amcache")
    /\ UnderFile
    /\ \A n \in {"17", "12", "11", "f"} : HasInt(n) /\ DataOf(n).i # 0 )
  => LET evs == events["amcache"]
     IN /\ Len(evs) = 4
        /\ [k \in 1..4 |-> evs[k].timestamp_desc]
             = <<TIME_DESCRIPTION_MODIFICATION, TIME_DESCRIPTION_CREATION,
                 TIME_DESCRIPTION_MODIFICATION, TIME_DESCRIPTION_CHANGE>>
        /\ evs[1].date_time = Filetime(DataOf("17").i)
        /\ evs[2].date_time = Filetime(DataOf("12").i)
        /\ evs[3].date_time = Filetime(DataOf("11").i)
        /\ evs[4].date_time = PosixTime(DataOf("f").i)
        /\ SameRecord(evs)
        /\ evs[1].event_data.createdts = PyInt(DataOf("12").i)
        /\ evs[1].event_data.lastmodifiedts = PyInt(DataOf("11").i)
        /\ evs[1].event_data.linkerts = PyInt(DataOf("f").i)

WellFormedDates == {Date_epoch, Date_later}
EpochOf(text) == IF text = Date_epoch THEN 0 ELSE 86401

\* C4: a key under \Root\InventoryApplication with a well-formed non-empty
\* InstallDate yields exactly two Installation events with the same event
\* data, at last_written_time and at the parsed Unix time (0 included); with
\* InstallDate empty or absent it yields exactly one, at last_written_time.
C4_InstallDateEvents ==
  (Ran("amcache10") /\ UnderInventoryApplication /\ HasValues)
  => LET evs == events["amcache10"]
     IN /\ ( HasText("InstallDate") /\ DataOf("InstallDate").s \in WellFormedDates )
           => /\ Len(evs) = 2
              /\ evs[1].timestamp_desc = TIME_DESCRIPTION_INSTALLATION
              /\ evs[2].timestamp_desc = TIME_DESCRIPTION_INSTALLATION
              /\ evs[1].date_time = registry_key.last_written_time
              /\ evs[2].date_time = PosixTime(EpochOf(DataOf("InstallDate").s))
              /\ SameRecord(evs)
        /\ ( ~HasName("InstallDate")
             \/ (HasText("InstallDate") /\ DataOf("InstallDate").s = <<>>) )
           => /\ Len(evs) = 1
              /\ evs[1].timestamp_desc = TIME_DESCRIPTION_INSTALLATION
              /\ evs[1].date_time = registry_key.last_written_time

\* C5: a key under \Root\InventoryApplicationFile always yields a
\* Modification event at last_written_time; a well-formed non-empty LinkDate
\* adds exactly one Creation event at the parsed Unix time, whatever that
\* integer is, with the same event data; with LinkDate empty or absent there
\* is exactly one event.
C5_LinkDateEvents ==
  (Ran("amcache10") /\ UnderInventoryApplicationFile /\ HasValues)
  => LET evs == events["amcache10"]
     IN /\ Len(evs) >= 1
        /\ evs[1].timestamp_desc = TIME_DESCRIPTION_MODIFICATION
        /\ evs[1].date_time = registry_key.last_written_time
        /\ ( HasText("LinkDate") /\ DataOf("LinkDate").s \in WellFormedDates )
           => /\ Len(evs) = 2
              /\ evs[2].timestamp_desc = TIME_DESCRIPTION_CREATION
              /\ evs[2].date_time = PosixTime(EpochOf(DataOf("LinkDate").s))
              /\ SameRecord(evs)
        /\ ( ~HasName("LinkDate")
             \/ (HasText("LinkDate") /\ DataOf("LinkDate").s = <<>>) )
           => Len(evs) = 1

\* C6: a key under \Root\Programs with at least one value yields exactly
\* one event, an Installation at the Unix time held by value a, or 0 when
\* the key has no value a; it is produced also when that time is 0.
C6_OneInstallationEvent ==
  ( /\ Ran("amcache")
    /\ UnderPrograms
    /\ HasValues
    /\ (HasName("a") => HasInt("a")) )
  => LET evs == events["amcache"]
     IN /\ Len(evs) = 1
        /\ evs[1].timestamp_desc = TIME_DESCRIPTION_INSTALLATION
        /\ evs[1].date_time
             = PosixTime(IF HasName("a") THEN DataOf("a").i ELSE 0)

\* The plugin whose prefixes the key's path starts with, if any.
RoutedBy(p) ==
  IF p = "amcache" THEN UnderFile \/ UnderPrograms
  ELSE UnderInventoryApplicationFile \/ UnderInventoryApplication

KeyLevelDescription ==
  IF UnderFile \/ UnderInventoryApplicationFile
    THEN TIME_DESCRIPTION_MODIFICATION
    ELSE TIME_DESCRIPTION_INSTALLATION

\* C7: in all four decoders a value that cannot be decoded fails that field
\* only: the plugin does not raise, and the key-level Modification or
\* Installation event is still produced.
C7_MalformedFieldOnly ==
  \A p \in Parsers :
    (Ran(p) /\ RoutedBy(p) /\ HasValues)
    => /\ errors[p] = "none"
       /\ Len(events[p]) >= 1
       /\ events[p][1].timestamp_desc = KeyLevelDescription

\* The value the claim gives an int/hex payload: a native integer is
\* itself, a decimal numeral reads in base 10, another hexadecimal numeral
\* reads in base 16; "undecodable" for text that is neither.
IntHexExpected(data) ==
  IF data.t = "int" THEN PyInt(data.i)
  ELSE IF data.s = Text_16 THEN PyInt(16)
  ELSE IF data.s = Text_1a THEN PyInt(26)
  ELSE PyStr(<<"u", "n", "d", "e", "c", "o", "d", "a", "b", "l", "e">>)

\* The key holds exactly one value.
OnlyValue(name) == Len(registry_key.values) = 1 /\ HasName(name)

IntHexField(p, name, attribute) ==
  (Ran(p) /\ OnlyValue(name) /\ DataOf(name).t \in {"int", "str"})
  => IF IntHexExpected(DataOf(name)).t = "int"
       THEN /\ errors[p] = "none"
            /\ Len(events[p]) >= 1
            /\ events[p][1].event_data[attribute] = IntHexExpected(DataOf(name))
       ELSE /\ errors[p] = "ValueError"
            /\ events[p] = <<>>

\* C8: the int/hex fields (3 and 6 under \Root\File, Language and Size under
\* \Root\InventoryApplicationFile) decode a native integer as itself, the
\* text "16" as 16, the text "1a" as 26, and fail on the text "zz".
C8_IntHexFallback ==
  /\ UnderFile
     => /\ IntHexField("amcache", "3", "languagecode")
        /\ IntHexField("amcache", "6", "filesize")
  /\ UnderInventoryApplicationFile
     => /\ IntHexField("amcache10", "Language", "languagecode")
        /\ IntHexField("amcache10", "Size", "filesize")

\* The text without its first four characters (empty when it has none left).
IsTextFrom5(result, text) ==
  /\ result.t = "str"
  /\ Len(result.s) = (IF Len(text) > 4 THEN Len(text) - 4 ELSE 0)
  /\ \A k \in 1..Len(result.s) : result.s[k] = text[k + 4]

HashName(p) == IF p = "amcache" THEN "101" ELSE "FileId"

UnderFileOf(p) ==
  IF p = "amcache" THEN UnderFile ELSE UnderInventoryApplicationFile

\* C9 as stated: hash text of length >= 4 is stored without its first four
\* characters; shorter hash text fails to decode and sha1 is not set to the
\* empty string.
C9_ShortHashFails ==
  \A p \in Parsers :
    (Ran(p) /\ UnderFileOf(p) /\ HasText(HashName(p)))
    => IF Len(DataOf(HashName(p)).s) >= 4
         THEN \A k \in 1..Len(events[p]) :
                IsTextFrom5(events[p][k].event_data.sha1, DataOf(HashName(p)).s)
         ELSE /\ errors[p] # "none"
              /\ \A k \in 1..Len(events[p]) :
                   events[p][k].event_data.sha1 # PyStr(<<>>)

\* C9 as amended: every event produced for a file key that holds hash text
\* carries that text without its first four characters as sha1, which is
\* the empty string when the text is shorter than four characters; a key
\* that holds nothing but the hash text does not raise and produces its
\* key-level event.
C9_HashSliced ==
  \A p \in Parsers :
    (Ran(p) /\ UnderFileOf(p) /\ HasText(HashName(p)))
    => /\ \A k \in 1..Len(events[p]) :
            IsTextFrom5(events[p][k].event_data.sha1, DataOf(HashName(p)).s)
       /\ OnlyValue(HashName(p))
            => errors[p] = "none" /\ Len(events[p]) = 1

C9_Witness ==
  /\ Ran("amcache")
  /\ UnderFile
  /\ HasText("101")
  /\ Len(DataOf("101").s) < 4
  /\ Len(events["amcache"]) >= 1
  /\ events["amcache"][1].event_data.sha1 = PyStr(<<>>)

ListFields ==
  << [name |-> "7", attribute |-> "uninstallkey"],
     [name |-> "d", attribute |-> "filepaths"],
     [name |-> "11", attribute |-> "msiproductcode"],
     [name |-> "12", attribute |-> "msipackagecode"],
     [name |-> "Files", attribute |-> "files"] >>

\* The elements of a two-element or one-element list joined by a newline.
IsJoined(result, elems) ==
  /\ result.t = "str"
  /\ result.s = (IF Len(elems) = 2 THEN elems[1] \o <<"\n">> \o elems[2]
                 ELSE elems[1])

\* C10: each multi-valued field of a key under \Root\Programs (7, d, 11, 12,
\* Files) stores a list payload as its elements joined by newlines in order;
\* a payload of None leaves the field unset and does not fail the record,
\* which still yields its Installation event.
C10_ListFields ==
  \A f \in 1..Len(ListFields) :
    ( /\ Ran("amcache")
      /\ UnderPrograms
      /\ OnlyValue(ListFields[f].name)
      /\ DataOf(ListFields[f].name).t \in {"list", "none"} )
    => /\ errors["amcache"] = "none"
       /\ Len(events["amcache"]) = 1
       /\ events["amcache"][1].timestamp_desc = TIME_DESCRIPTION_INSTALLATION
       /\ IF DataOf(ListFields[f].name).t = "none"
            THEN events["amcache"][1].event_data[ListFields[f].attribute] = PyNone
            ELSE IsJoined(events["amcache"][1].event_data[ListFields[f].attribute],
                          DataOf(ListFields[f].name).l)

\* C11: a plugin whose two prefixes the key's path does not start with
\* produces no event and does not raise, whatever values the key holds; and
\* no key makes both plugins produce events.
C11_UnmatchedPathIgnored ==
  /\ \A p \in Parsers :
       (Ran(p) /\ ~RoutedBy(p)) => (events[p] = <<>> /\ errors[p] = "none")
  /\ ~(events["amcache"] # <<>> /\ events["amcache10"] # <<>>)

C11_Witness ==
  /\ Ran("amcache")
  /\ Ran("amcache10")
  /\ HasValues
  /\ RoutedBy("amcache")
  /\ ~RoutedBy("amcache10")
  /\ events["amcache"] # <<>>
  /\ events["amcache10"] = <<>>

\* The events of the amcache plugin that carry a FILETIME instant of zero.
ZeroFiletimeEvents ==
  { k \in 1..Len(events["amcache"]) :
      events["amcache"][k].date_time = Filetime(0) }

ZeroOrAbsent(name) == ~HasName(name) \/ (HasInt(name) /\ DataOf(name).i = 0)

\* C12 as stated: the events of a key under \Root\File never carry a
\* FILETIME instant of zero, whether value 17, 12 or 11 is zero or absent.
C12_NoZeroFiletime ==
  (Ran("amcache") /\ UnderFile) => ZeroFiletimeEvents = {}

\* C12 as amended: for a key under \Root\File, value 12 zero or absent gives
\* no Creation event and value 11 zero or absent gives no Modification event
\* after the first, so no event after the first carries a FILETIME instant
\* of zero; the first event is not suppressed: when the plugin does not
\* raise and value 17 is zero or absent, the first event is a Modification
\* at FILETIME zero.
C12_OptionalFiletimeSuppressed ==
  (Ran("amcache") /\ UnderFile /\ HasValues)
  => LET evs == events["amcache"]
     IN /\ ZeroFiletimeEvents \subseteq {1}
        /\ ZeroOrAbsent("12")
             => \A k \in 1..Len(evs) :
                  evs[k].timestamp_desc # TIME_DESCRIPTION_CREATION
        /\ ZeroOrAbsent("11")
             => \A k \in 2..Len(evs) :
                  evs[k].timestamp_desc # TIME_DESCRIPTION_MODIFICATION
        /\ (errors["amcache"] = "none" /\ ZeroOrAbsent("17"))
             => /\ Len(evs) >= 1
                /\ evs[1].date_time = Filetime(0)
                /\ evs[1].timestamp_desc = TIME_DESCRIPTION_MODIFICATION

C12_Witness ==
  /\ Ran("amcache")
  /\ UnderFile
  /\ ~HasName("17")
  /\ HasInt("12") /\ DataOf("12").i = 0
  /\ HasInt("11") /\ DataOf("11").i # 0
  /\ Len(events["amcache"]) = 2
  /\ ZeroFiletimeEvents = {1}

\* C13: the amcache10 plugin decodes a key under
\* \Root\InventoryApplicationFile as a file key only (its events carry file
\* event data and begin with a Modification at last_written_time), and a key
\* under \Root\InventoryApplication but not \Root\InventoryApplicationFile
\* as a program key only (program event data, Installation events); unless
\* decoding raises, the key-level event is produced.
C13_FilePrefixFirst ==
  (Ran("amcache10") /\ HasValues)
  => LET evs == events["amcache10"]
     IN /\ UnderInventoryApplicationFile
             => /\ \A k \in 1..Len(evs) :
                     /\ evs[k].event_data.data_type = AmcacheEventData.data_type
                     /\ evs[k].timestamp_desc # TIME_DESCRIPTION_INSTALLATION
                /\ errors["amcache10"] = "none"
                     => /\ Len(evs) >= 1
                        /\ evs[1].timestamp_desc = TIME_DESCRIPTION_MODIFICATION
                        /\ evs[1].date_time = registry_key.last_written_time
        /\ UnderInventoryApplication
             => /\ \A k \in 1..Len(evs) :
                     /\ evs[k].event_data.data_type
                          = AmcacheProgramEventData.data_type
                     /\ evs[k].timestamp_desc = TIME_DESCRIPTION_INSTALLATION
                /\ errors["amcache10"] = "none" => Len(evs) >= 1

C13_Witness ==
  /\ Ran("amcache10")
  /\ UnderInventoryApplicationFile
  /\ StartsWith(registry_key.path, AMCACHE_ROOT_WIN10_PROGRAM_KEY)
  /\ HasName("LinkDate")
  /\ Len(events["amcache10"]) = 2
  /\ events["amcache10"][2].timestamp_desc = TIME_DESCRIPTION_CREATION
  /\ events["amcache10"][1].event_data.data_type = AmcacheEventData.data_type
====
